---------------------------- MODULE Spec2Model ----------------------------
(***************************************************************************)
(* One turn of the demo agents of beeai-demos: chat_agent, travel_guide,   *)
(* boston_guide_agent and trajectory_agent.  A turn runs the agent         *)
(* runtime (tool calls through the tracking wrappers, trajectory lines     *)
(* written to the capture sink), then emits trajectory steps, the answer   *)
(* and the citations as a stream of yielded message parts.                 *)
(*                                                                         *)
(* Text is a sequence of characters.  A character is a one-letter string;  *)
(* "U0130" is LATIN CAPITAL LETTER I WITH DOT ABOVE and "U0307" is         *)
(* COMBINING DOT ABOVE, the one pair for which str.lower() lengthens text. *)
(***************************************************************************)
EXTENDS Integers, Sequences, FiniteSets, TLC

(***************************************************************************)
(* Bounds of the model.                                                    *)
(***************************************************************************)
MaxCalls == 2
MaxLines == 2
MaxParts == 2

(***************************************************************************)
(* Python string operations used by the agents.                            *)
(***************************************************************************)
None == "None"

UpperAZ ==
    <<"A", "B", "C", "D", "E", "F", "G", "H", "I", "J", "K", "L", "M",
      "N", "O", "P", "Q", "R", "S", "T", "U", "V", "W", "X", "Y", "Z">>

LowerAZ ==
    <<"a", "b", "c", "d", "e", "f", "g", "h", "i", "j", "k", "l", "m",
      "n", "o", "p", "q", "r", "s", "t", "u", "v", "w", "x", "y", "z">>

Whitespace == {" ", "\n", "\t"}

OtherChars == {" ", "\n", "\t", ":", "-", ".", "U0130", "U0307"}

Alphabet ==
    {UpperAZ[k] : k \in 1..26} \cup {LowerAZ[k] : k \in 1..26} \cup OtherChars

\* str.lower() of one character: a sequence, since U+0130 lowers to two
LowerChar ==
    [c \in Alphabet |->
        IF \E k \in 1..26 : UpperAZ[k] = c
        THEN <<LowerAZ[CHOOSE k \in 1..26 : UpperAZ[k] = c]>>
        ELSE IF c = "U0130" THEN <<"i", "U0307">>
        ELSE <<c>>]

\* the lower-cased characters of s from position k on
RECURSIVE LowerFrom(_, _)
LowerFrom(s, k) ==
    IF k > Len(s) THEN <<>> ELSE LowerChar[s[k]] \o LowerFrom(s, k + 1)

\* str.lower()
Lower(s) == LowerFrom(s, 1)

\* the first offset >= k at which needle occurs in hay, -1 if none
RECURSIVE FindFrom(_, _, _)
FindFrom(hay, needle, k) ==
    IF k + Len(needle) > Len(hay) THEN -1
    ELSE IF /\ needle # <<>> => hay[k + 1] = needle[1]
            /\ SubSeq(hay, k + 1, k + Len(needle)) = needle
    THEN k
    ELSE FindFrom(hay, needle, k + 1)

\* hay.find(needle): 0-based offset of the first occurrence, -1 if none
Find(hay, needle) == FindFrom(hay, needle, 0)

\* needle in hay
Contains(hay, needle) == Find(hay, needle) # -1

Min(a, b) == IF a < b THEN a ELSE b

\* s[lo:hi] for 0 <= lo
Slice(s, lo, hi) == SubSeq(s, lo + 1, Min(hi, Len(s)))

RECURSIVE LStrip(_)
LStrip(s) ==
    IF s # <<>> /\ Head(s) \in Whitespace THEN LStrip(Tail(s)) ELSE s

RECURSIVE RStrip(_)
RStrip(s) ==
    IF s # <<>> /\ s[Len(s)] \in Whitespace
    THEN RStrip(SubSeq(s, 1, Len(s) - 1)) ELSE s

\* str.strip()
Strip(s) == RStrip(LStrip(s))

\* length of the leading run of non-whitespace characters
RECURSIVE WordLen(_)
WordLen(s) ==
    IF s = <<>> \/ Head(s) \in Whitespace THEN 0 ELSE 1 + WordLen(Tail(s))

\* str.split(): the whitespace-delimited words, in order
RECURSIVE Split(_)
Split(s) ==
    LET t == LStrip(s) IN
    IF t = <<>> THEN <<>>
    ELSE <<SubSeq(t, 1, WordLen(t))>> \o Split(SubSeq(t, WordLen(t) + 1, Len(t)))

\* [c] * n
Repeat(c, n) == [i \in 1..n |-> c]

(***************************************************************************)
(* Text constants.                                                         *)
(***************************************************************************)
W_weather ==
    <<"w", "e", "a", "t", "h", "e", "r">>
W_temperature ==
    <<"t", "e", "m", "p", "e", "r", "a", "t", "u", "r", "e">>
W_warm ==
    <<"w", "a", "r", "m">>
W_cool ==
    <<"c", "o", "o", "l">>
W_forecast ==
    <<"f", "o", "r", "e", "c", "a", "s", "t">>
W_conditions ==
    <<"c", "o", "n", "d", "i", "t", "i", "o", "n", "s">>
W_climate ==
    <<"c", "l", "i", "m", "a", "t", "e">>
W_rain ==
    <<"r", "a", "i", "n">>
W_sunny ==
    <<"s", "u", "n", "n", "y">>
W_cloudy ==
    <<"c", "l", "o", "u", "d", "y">>
W_wind ==
    <<"w", "i", "n", "d">>
W_humidity ==
    <<"h", "u", "m", "i", "d", "i", "t", "y">>
ThinkMarker ==
    <<"T", "h", "i", "n", "k", "T", "o", "o", "l">>
WikipediaMarker ==
    <<"W", "i", "k", "i", "p", "e", "d", "i", "a", "T", "o", "o", "l">>
OpenMeteoMarker ==
    <<"O", "p", "e", "n", "M", "e", "t", "e", "o", "T", "o", "o", "l">>
DuckDuckGoMarker ==
    <<"D", "u", "c", "k", "D", "u", "c", "k", "G", "o", "S", "e", "a", "r", "c", "h", "T", "o", "o", "l">>
AnswerForecast ==
    <<"B", "O", "S", "T", "O", "N", " ", "p", "a", "r", "k", ":", " ", "e", "x", "p", "e", "c", "t", " ", "s", "u", "n", "n", "y", " ", "a", "n", "d", " ", "w", "a", "r", "m", " ", "w", "e", "a", "t", "h", "e", "r", " ", "t", "o", "m", "o", "r", "r", "o", "w">>
AnswerDotted ==
    <<"U0130", " ", "B", "o", "s", "t", "o", "n", " ", "p", "a", "r", "k">>
TitleA ==
    <<"A">>
TitleBostonCommon ==
    <<"B", "o", "s", "t", "o", "n", " ", "C", "o", "m", "m", "o", "n">>
TitleThePark ==
    <<"T", "h", "e", " ", "P", "a", "r", "k">>
TitleBoston ==
    <<"B", "o", "s", "t", "o", "n">>
TitleBostonGuide ==
    <<"B", "o", "s", "t", "o", "n", " ", "G", "u", "i", "d", "e">>
LineBlank ==
    <<"\n">>
LineThinkWiki ==
    <<" ", "T", "h", "i", "n", "k", "T", "o", "o", "l", " ", "W", "i", "k", "i", "p", "e", "d", "i", "a", "T", "o", "o", "l", " ">>
LineSearch ==
    <<"D", "u", "c", "k", "D", "u", "c", "k", "G", "o", "S", "e", "a", "r", "c", "h", "T", "o", "o", "l">>
LinePlain ==
    <<"s", "t", "e", "p", " ", "d", "o", "n", "e">>
LineWeatherSearch ==
    <<"O", "p", "e", "n", "M", "e", "t", "e", "o", "T", "o", "o", "l", " ", "D", "u", "c", "k", "D", "u", "c", "k", "G", "o", "S", "e", "a", "r", "c", "h", "T", "o", "o", "l">>
LineWikiThink ==
    <<"W", "i", "k", "i", "p", "e", "d", "i", "a", "T", "o", "o", "l", " ", "t", "h", "e", "n", " ", "T", "h", "i", "n", "k", "T", "o", "o", "l">>
IndicatorDef ==
    <<"d", "e", "f", " ">>
IndicatorClass ==
    <<"c", "l", "a", "s", "s", " ">>
IndicatorImport ==
    <<"i", "m", "p", "o", "r", "t", " ">>
IndicatorPrint ==
    <<"p", "r", "i", "n", "t", "(">>
CodeFunction ==
    <<"d", "e", "f", " ", "f", "(", ")", ":", " ", "p", "a", "s", "s">>
CodePrint ==
    <<"p", "r", "i", "n", "t", "(", "1", ")">>
CodeNotes ==
    <<"n", "o", "t", "e", "s">>
OpenMeteoTitle ==
    <<"O", "p", "e", "n", "-", "M", "e", "t", "e", "o", " ", "W", "e", "a", "t", "h", "e", "r", " ", "A", "P", "I">>
OpenMeteoDescriptionChat ==
    <<"R", "e", "a", "l", "-", "t", "i", "m", "e", " ", "w", "e", "a", "t", "h", "e", "r", " ", "d", "a", "t", "a", " ", "a", "n", "d", " ", "f", "o", "r", "e", "c", "a", "s", "t", "s">>
OpenMeteoDescriptionBoston ==
    <<"W", "e", "a", "t", "h", "e", "r", " ", "d", "a", "t", "a", " ", "f", "r", "o", "m", " ", "O", "p", "e", "n", "-", "M", "e", "t", "e", "o">>
ForecastPhrase ==
    <<"e", "x", "p", "e", "c", "t", " ", "s", "u", "n", "n", "y", " ", "a", "n", "d", " ", "w", "a", "r", "m", " ", "w", "e", "a", "t", "h", "e", "r", " ", "t", "o", "m", "o", "r", "r", "o", "w">>

(***************************************************************************)
(* The agents and their configuration.                                     *)
(***************************************************************************)
Agents == {"chat_agent", "travel_guide", "boston_guide_agent", "trajectory_agent"}

\* tools=[...] handed to RequirementAgent
Tools(a) ==
    IF a = "trajectory_agent"
    THEN {"Think", "Wikipedia", "OpenMeteo"}
    ELSE {"Think", "Wikipedia", "OpenMeteo", "DuckDuckGo"}

\* a recorder that leaves OpenMeteoTool unwrapped
TrackedSearchOnly(a, kind) ==
    /\ a # "trajectory_agent"
    /\ kind \in {"Wikipedia", "DuckDuckGo"}

\* the tools wrapped by a Tracked...Tool subclass; ThinkTool() is never wrapped
Tracked(a, kind) ==
    /\ a # "trajectory_agent"
    /\ kind \in {"Wikipedia", "OpenMeteo", "DuckDuckGo"}

\* agent.run(...).middleware(GlobalTrajectoryMiddleware(target=trajectory, ...))
HasTrajectory(a) == a # "boston_guide_agent"

\* the agents that yield CitationMetadata
HasCitations(a) == a # "trajectory_agent"

\* the agents whose citation loops test citation_count >= 10
HasCap(a) == a \in {"chat_agent", "travel_guide"}

CitationCap == 10
WikipediaMinLen == 3
DuckDuckGoMinLen == 4
DescriptionLimit == 100

\* a marker with a space before the dots
EllipsisSpaced == <<" ", ".", ".", ".">>

Ellipsis == <<".", ".", ".">>

\* the vocabulary with "sunny" moved to the front
weather_words_sunny_first(a) ==
    <<W_sunny, W_weather, W_temperature, W_warm, W_cool, W_forecast,
      W_conditions>>

weather_words(a) ==
    IF a = "chat_agent"
    THEN <<W_weather, W_temperature, W_warm, W_cool, W_forecast, W_conditions,
           W_climate, W_rain, W_sunny, W_cloudy, W_wind, W_humidity>>
    ELSE IF a = "travel_guide"
    THEN <<W_weather, W_temperature, W_warm, W_cool, W_forecast, W_conditions,
           W_climate, W_rain, W_sunny, W_cloudy>>
    ELSE <<W_weather, W_temperature, W_warm, W_cool, W_forecast, W_conditions>>

OpenMeteoUrl == <<"https://open-meteo.com/">>

OpenMeteoDescription(a) ==
    IF a = "boston_guide_agent"
    THEN OpenMeteoDescriptionBoston ELSE OpenMeteoDescriptionChat

(***************************************************************************)
(* Inputs of a turn: what the tools return, what the runtime writes to the *)
(* trajectory sink, and the final answer.                                  *)
(***************************************************************************)
\* a description that is None: a one-element sequence that is no text
NoDescription == <<None>>

HitA ==
    [title |-> TitleA, url |-> <<"u/a", 1>>, description |-> <<"d">>]
HitPark ==
    [title |-> TitleThePark, url |-> <<"u/park", 1>>, description |-> <<>>]
HitNoDesc ==
    [title |-> TitleBoston, url |-> <<"u/nodesc", 1>>, description |-> NoDescription]
HitBostonCommon ==
    [title |-> TitleBostonCommon, url |-> <<"u/common", 1>>,
     description |-> Repeat("d", DescriptionLimit)]
HitBoston ==
    [title |-> TitleBoston, url |-> <<"u/boston", 1>>,
     description |-> Repeat("d", DescriptionLimit + 50)]
HitGuide(k) ==
    [title |-> TitleBostonGuide, url |-> <<"u/guide", k>>,
     description |-> <<"d", "d">>]

\* a tool output without a results attribute (ThinkTool, OpenMeteoTool)
Unstructured == [text |-> "output"]
EmptyResults == [results |-> <<>>]
MixedResults == [results |-> <<HitA, HitPark, HitBostonCommon>>]
BrokenResults == [results |-> <<HitPark, HitBoston, HitNoDesc>>]
ManyResults == [results |-> [k \in 1..(CitationCap + 1) |-> HitGuide(k)]]

ToolOutputs(kind) ==
    CASE kind = "Wikipedia" -> {MixedResults, ManyResults}
      [] kind = "DuckDuckGo" -> {EmptyResults, BrokenResults}
      [] OTHER -> {Unstructured}

Lines == {LineBlank, LineThinkWiki, LineSearch}

\* further messages for the turns in which the classifier is studied alone
ClassifierLines ==
    Lines \cup {LinePlain, LineWeatherSearch, LineWikiThink}

Answers == {AnswerForecast, AnswerDotted}

(***************************************************************************)
(* State of one turn.                                                      *)
(***************************************************************************)
VARIABLES
    agent,           \* the agent function serving the turn
    pc,              \* position in the agent function
    started,         \* number of tool calls the runtime has started
    running,         \* the tool calls awaiting super()._run(...)
    returned,        \* per tool, the number of calls that returned
    last_call,       \* the tool call that completed last
    results,         \* tool_tracker.results / tool_calls
    order,           \* for each entry of results, the call that appended it
    parts,           \* input[-1].parts of python_doc_generator
    part_index,      \* the place in parts of the loop variable part
    code,            \* the downloaded file content
    written,         \* the messages the middleware passed to write()
    steps,           \* trajectory.steps
    response_text,   \* response.answer.text
    events,          \* the message parts yielded so far
    anchors,         \* for each citation yielded, the word it was anchored at
    error,           \* the exception raised in the agent function, if any
    escaped          \* the exception left the agent function

vars == <<agent, pc, started, running, returned, last_call, results, order,
          parts, part_index, code, written, steps, response_text, events, anchors, error, escaped>>

ToolKinds == {"Think", "Wikipedia", "OpenMeteo", "DuckDuckGo"}

NoError == "none"

NoCall ==
    [ticket |-> 0, kind |-> None, status |-> None, inner |-> Unstructured,
     value |-> Unstructured]

Init ==
    /\ agent \in Agents
    /\ pc = IF agent = "boston_guide_agent" THEN "run" ELSE "start"
    /\ started = 0
    /\ running = {}
    /\ returned = [kind \in ToolKinds |-> 0]
    /\ last_call = NoCall
    /\ results = <<>>
    /\ order = <<>>
    /\ parts = <<>>
    /\ part_index = 0
    /\ code = <<>>
    /\ written = <<>>
    /\ steps = <<>>
    /\ response_text = <<>>
    /\ events = <<>>
    /\ anchors = <<>>
    /\ error = NoError
    /\ escaped = FALSE

(***************************************************************************)
(* Message parts.                                                          *)
(***************************************************************************)
Trajectory(role, index, text, tool_name) ==
    [part |-> "trajectory", role |-> role, index |-> index, text |-> text,
     tool_name |-> tool_name]

Content(role, text) == [part |-> "content", role |-> role, text |-> text]

Citation(url, title, description, start_index, end_index) ==
    [part |-> "citation", url |-> url, title |-> title,
     description |-> description, start_index |-> start_index,
     end_index |-> end_index]

(***************************************************************************)
(* An exception raised inside the agent function.  chat_agent,             *)
(* travel_guide and trajectory_agent run inside try/except Exception;      *)
(* boston_guide_agent has no handler.                                      *)
(***************************************************************************)
Raise(e) ==
    IF agent = "boston_guide_agent"
    THEN /\ pc' = "end"
         /\ escaped' = TRUE
         /\ error' = e
    ELSE /\ pc' = "except"
         /\ escaped' = FALSE
         /\ error' = e

(***************************************************************************)
(* The start of the agent function.                                        *)
(***************************************************************************)
YieldStart ==
    /\ pc = "start"
    /\ events' = Append(events, Trajectory("start", 0, <<>>, None))
    /\ pc' = "init"
    /\ UNCHANGED <<agent, parts, part_index, code, written, started, running, returned, last_call, results,
                   order, steps, response_text, anchors, error, escaped>>

YieldInitialized ==
    /\ pc = "init"
    /\ events' = Append(events, Trajectory("initialized", 0, <<>>, None))
    /\ pc' = "run"
    /\ UNCHANGED <<agent, parts, part_index, code, written, started, running, returned, last_call, results,
                   order, steps, response_text, anchors, error, escaped>>

(***************************************************************************)
(* agent.run: the runtime starts tool calls, the tracking wrappers         *)
(* complete them, and the trajectory middleware writes to the sink.        *)
(***************************************************************************)
\* TrackedTool.add_result / tool_calls.append
add_result(log, entry) == Append(log, entry)

\* the runtime awaits tool._run(...), one tool call at a time
StartCall(kind) ==
    /\ pc = "run"
    /\ running = {}
    /\ started < MaxCalls
    /\ kind \in Tools(agent)
    /\ started' = started + 1
    /\ running' = running \cup {[ticket |-> started + 1, kind |-> kind]}
    /\ UNCHANGED <<agent, parts, part_index, code, written, pc, returned, last_call, results, order, steps,
                   response_text, events, anchors, error, escaped>>

\* a host runtime that starts a tool call while another is in flight
StartConcurrentCall(kind) ==
    /\ pc = "run"
    /\ running # {}
    /\ started < MaxCalls
    /\ kind \in Tools(agent)
    /\ started' = started + 1
    /\ running' = running \cup {[ticket |-> started + 1, kind |-> kind]}
    /\ UNCHANGED <<agent, parts, part_index, code, written, pc, returned, last_call, results, order, steps,
                   response_text, events, anchors, error, escaped>>

\* result = await super()._run(...) returns; add_result; return result
CallReturns(c, out) ==
    /\ pc = "run"
    /\ c \in running
    /\ out \in ToolOutputs(c.kind)
    /\ running' = running \ {c}
    /\ results' = IF Tracked(agent, c.kind)
                  THEN add_result(results, <<c.kind, out>>) ELSE results
    /\ order' = IF Tracked(agent, c.kind)
                THEN Append(order, c.ticket) ELSE order
    /\ returned' = [returned EXCEPT ![c.kind] = @ + 1]
    /\ last_call' = [ticket |-> c.ticket, kind |-> c.kind,
                     status |-> "returned", inner |-> out, value |-> out]
    /\ UNCHANGED <<agent, parts, part_index, code, written, pc, started, steps, response_text, events, anchors,
                   error, escaped>>

\* a wrapper that records the call in a finally clause
CallRaisesAndRecords(c) ==
    /\ pc = "run"
    /\ c \in running
    /\ running' = running \ {c}
    /\ last_call' = [ticket |-> c.ticket, kind |-> c.kind,
                     status |-> "raised", inner |-> Unstructured,
                     value |-> Unstructured]
    /\ results' = Append(results, <<c.kind, Unstructured>>)
    /\ order' = Append(order, c.ticket)
    /\ Raise("ToolError")
    /\ UNCHANGED <<agent, parts, part_index, code, written, started, returned, steps, response_text, events,
                   anchors>>

\* await super()._run(...) raises: nothing is recorded, the exception
\* leaves _run and ends agent.run
CallRaises(c) ==
    /\ pc = "run"
    /\ c \in running
    /\ running' = running \ {c}
    /\ last_call' = [ticket |-> c.ticket, kind |-> c.kind,
                     status |-> "raised", inner |-> Unstructured,
                     value |-> Unstructured]
    /\ Raise("ToolError")
    /\ UNCHANGED <<agent, parts, part_index, code, written, started, returned, results, order, steps,
                   response_text, events, anchors>>

\* a writer that stores the message as it came
WriteUntrimmed(message) ==
    /\ pc = "run"
    /\ HasTrajectory(agent)
    /\ Len(steps) < MaxLines
    /\ written' = Append(written, message)
    /\ steps' = Append(steps, message)
    /\ UNCHANGED <<agent, parts, part_index, code, pc, started, running, returned, last_call, results,
                   order, response_text, events, anchors, error, escaped>>

\* TrajectoryCapture.write, called by the trajectory middleware with message
Write(message) ==
    /\ pc = "run"
    /\ HasTrajectory(agent)
    /\ Len(steps) < MaxLines
    /\ written' = Append(written, message)
    /\ steps' = Append(steps, Strip(message))
    /\ UNCHANGED <<agent, parts, part_index, code, pc, started, running, returned, last_call, results,
                   order, response_text, events, anchors, error, escaped>>

\* agent.run raises for a reason of its own
RunRaises ==
    /\ pc = "run"
    /\ Raise("AgentError")
    /\ UNCHANGED <<agent, parts, part_index, code, written, started, running, returned, last_call, results,
                   order, steps, response_text, events, anchors>>

\* response = await agent.run(...); response_text = response.answer.text
RunReturns(answer) ==
    /\ pc = "run"
    /\ running = {}
    /\ answer \in Answers
    /\ response_text' = answer
    /\ pc' = IF HasTrajectory(agent) THEN "steps" ELSE "answer"
    /\ UNCHANGED <<agent, parts, part_index, code, written, started, running, returned, last_call, results,
                   order, steps, events, anchors, error, escaped>>

(***************************************************************************)
(* Trajectory Classifier: the loop over trajectory.steps.                  *)
(***************************************************************************)
\* a chain that tests WikipediaTool before ThinkTool
ClassifyStepWikipediaFirst(a, step) ==
    IF Contains(step, WikipediaMarker) THEN "Wikipedia"
    ELSE IF Contains(step, ThinkMarker) THEN "Think"
    ELSE IF Contains(step, OpenMeteoMarker) THEN "Weather"
    ELSE IF a # "trajectory_agent" /\ Contains(step, DuckDuckGoMarker)
    THEN "DuckDuckGo"
    ELSE None

\* a chain that starts from tool_name = "Think" instead of None
ClassifyStepDefaultThink(a, step) ==
    IF Contains(step, WikipediaMarker) /\ ~Contains(step, ThinkMarker)
    THEN "Wikipedia"
    ELSE IF Contains(step, OpenMeteoMarker) /\ ~Contains(step, ThinkMarker)
    THEN "Weather"
    ELSE IF /\ a # "trajectory_agent"
            /\ Contains(step, DuckDuckGoMarker)
            /\ ~Contains(step, ThinkMarker)
    THEN "DuckDuckGo"
    ELSE "Think"

\* the if/elif chain over the marker substrings
ClassifyStep(a, step) ==
    IF Contains(step, ThinkMarker) THEN "Think"
    ELSE IF Contains(step, WikipediaMarker) THEN "Wikipedia"
    ELSE IF Contains(step, OpenMeteoMarker) THEN "Weather"
    ELSE IF a # "trajectory_agent" /\ Contains(step, DuckDuckGoMarker)
    THEN "DuckDuckGo"
    ELSE None

\* the number shown in "Step {i+1}: ..." for enumerate index k
StepNumber(k) == k + 1

\* the parts yielded by the iterations k, k+1, ... of
\* for i, step in enumerate(trajectory.steps)
RECURSIVE StepParts(_, _, _)
StepParts(a, lines, k) ==
    IF k >= Len(lines) THEN <<>>
    ELSE LET step == lines[k + 1] IN
         (IF Strip(step) # <<>>
          THEN <<Trajectory("step", StepNumber(k), step, ClassifyStep(a, step))>>
          ELSE <<>>)
         \o StepParts(a, lines, k + 1)

\* the loop over trajectory.steps
EmitSteps ==
    /\ pc = "steps"
    /\ events' = events \o StepParts(agent, steps, 0)
    /\ pc' = IF agent = "trajectory_agent" THEN "completed" ELSE "answer"
    /\ UNCHANGED <<agent, parts, part_index, code, written, started, running, returned, last_call, results,
                   order, steps, response_text, anchors, error, escaped>>

\* yield MessagePart(content=response_text)
YieldAnswer ==
    /\ pc = "answer"
    /\ events' = Append(events, Content("answer", response_text))
    /\ pc' = IF agent = "trajectory_agent" THEN "end" ELSE "cite"
    /\ UNCHANGED <<agent, parts, part_index, code, written, started, running, returned, last_call, results,
                   order, steps, response_text, anchors, error, escaped>>

\* yield MessagePart(metadata=TrajectoryMetadata(message="... completed ..."))
YieldCompleted ==
    /\ pc = "completed"
    /\ events' = Append(events, Trajectory("completed", 0, <<>>, None))
    /\ pc' = IF agent = "trajectory_agent" THEN "answer" ELSE "end"
    /\ UNCHANGED <<agent, parts, part_index, code, written, started, running, returned, last_call, results,
                   order, steps, response_text, anchors, error, escaped>>

(***************************************************************************)
(* Citation Extractor: the loop over the recorded tool results.            *)
(***************************************************************************)
\* hasattr(tool_output, 'results') and tool_output.results
HasResults(tool_output) ==
    /\ "results" \in DOMAIN tool_output
    /\ Len(tool_output.results) > 0

\* if citation_count >= 10: break
CapReached(a, count) == HasCap(a) /\ count >= CitationCap

MinLen(tool_name) ==
    IF tool_name = "Wikipedia" THEN WikipediaMinLen ELSE DuckDuckGoMinLen

\* word.lower() in response_text.lower() and len(word) > n, and the find
\* that follows does not return -1; lowered is response_text.lower()
Matches(word, lowered, n) ==
    LET start_idx == Find(lowered, Lower(word)) IN
    /\ start_idx # -1
    /\ Len(word) > n
    /\ start_idx # -1

\* for word in title_words, from the k-th word on: the word at which the
\* loop yields and breaks; <<>> if none
RECURSIVE AnchorFrom(_, _, _, _)
AnchorFrom(words, k, lowered, n) ==
    IF k > Len(words) THEN <<>>
    ELSE IF Matches(words[k], lowered, n) THEN words[k]
    ELSE AnchorFrom(words, k + 1, lowered, n)

\* title_words = result.title.split() and the loop over it
AnchorWord(title, lowered, n) == AnchorFrom(Split(title), 1, lowered, n)

\* a truncation that also marks a description of exactly 100 characters
TruncateAtLimit(description) ==
    IF Len(description) >= DescriptionLimit
    THEN SubSeq(description, 1, DescriptionLimit) \o Ellipsis
    ELSE description

\* result.description[:100] + "..." if len(result.description) > 100
\* else result.description
Truncate(description) ==
    IF Len(description) > DescriptionLimit
    THEN SubSeq(description, 1, DescriptionLimit) \o Ellipsis
    ELSE description

\* the CitationMetadata yielded for a search hit anchored at word
HitCitation(result, word, lowered) ==
    LET start_idx == Find(lowered, Lower(word)) IN
    Citation(result.url, result.title, Truncate(result.description),
             start_idx, start_idx + Len(word))

\* for word in weather_words, from the k-th word on: the word at which the
\* loop yields and breaks; <<>> if none
RECURSIVE WeatherFrom(_, _, _)
WeatherFrom(words, k, lowered) ==
    IF k > Len(words) THEN <<>>
    ELSE IF Contains(lowered, words[k]) THEN words[k]
    ELSE WeatherFrom(words, k + 1, lowered)

WeatherWord(a, lowered) == WeatherFrom(weather_words(a), 1, lowered)

\* the CitationMetadata yielded for an OpenMeteo record anchored at word
WeatherCitation(a, word, lowered) ==
    LET start_idx == Find(lowered, word) IN
    Citation(OpenMeteoUrl, OpenMeteoTitle, OpenMeteoDescription(a),
             start_idx, start_idx + Len(word))

\* the state of the citation loops: the parts yielded, the words they are
\* anchored at, citation_count, and whether an exception was raised
NoCitations == [parts |-> <<>>, words |-> <<>>, count |-> 0, raised |-> FALSE]

Cited(st, part, word) ==
    [parts |-> Append(st.parts, part), words |-> Append(st.words, word),
     count |-> st.count + 1, raised |-> FALSE]

\* a loop over the hits that counts every hit it has looked at, cited or not
RECURSIVE CiteHitsCountingMisses(_, _, _, _, _)
CiteHitsCountingMisses(a, tool_name, hits, lowered, st) ==
    IF hits = <<>> \/ st.raised \/ CapReached(a, st.count) THEN st
    ELSE LET result == Head(hits)
             word == AnchorWord(result.title, lowered, MinLen(tool_name))
         IN IF word = <<>>
            THEN CiteHitsCountingMisses(a, tool_name, Tail(hits), lowered,
                                        [st EXCEPT !.count = @ + 1])
            ELSE IF result.description = NoDescription
            THEN [st EXCEPT !.raised = TRUE]
            ELSE CiteHitsCountingMisses(a, tool_name, Tail(hits), lowered,
                     Cited(st, HitCitation(result, word, lowered), word))

\* for result in tool_output.results, from the state st on
RECURSIVE CiteHits(_, _, _, _, _)
CiteHits(a, tool_name, hits, lowered, st) ==
    IF hits = <<>> \/ st.raised \/ CapReached(a, st.count) THEN st
    ELSE LET result == Head(hits)
             word == AnchorWord(result.title, lowered, MinLen(tool_name))
         IN IF word = <<>>
            THEN CiteHits(a, tool_name, Tail(hits), lowered, st)
            ELSE IF result.description = NoDescription
            THEN \* len(None) raises TypeError
                 [st EXCEPT !.raised = TRUE]
            ELSE CiteHits(a, tool_name, Tail(hits), lowered,
                          Cited(st, HitCitation(result, word, lowered), word))

\* an OpenMeteo branch without the break after the yield: one citation for
\* every vocabulary word that the answer contains
RECURSIVE CiteWeatherWords(_, _, _, _)
CiteWeatherWords(a, words, lowered, st) ==
    IF words = <<>> \/ CapReached(a, st.count) THEN st
    ELSE IF Contains(lowered, Head(words))
    THEN CiteWeatherWords(a, Tail(words), lowered,
                          Cited(st, WeatherCitation(a, Head(words), lowered),
                                Head(words)))
    ELSE CiteWeatherWords(a, Tail(words), lowered, st)

CiteWeatherNoBreak(a, lowered, st) ==
    CiteWeatherWords(a, weather_words(a), lowered, st)

\* the OpenMeteo branch: at most one citation, at the first vocabulary word
CiteWeather(a, lowered, st) ==
    LET word == WeatherWord(a, lowered) IN
    IF word = <<>> \/ CapReached(a, st.count) THEN st
    ELSE Cited(st, WeatherCitation(a, word, lowered), word)

\* for tool_name, tool_output in tool_tracker.results, from the state st on
RECURSIVE CiteRecords(_, _, _, _)
CiteRecords(a, log, lowered, st) ==
    IF log = <<>> \/ st.raised \/ CapReached(a, st.count) THEN st
    ELSE LET tool_name == Head(log)[1]
             tool_output == Head(log)[2]
         IN IF tool_name \in {"Wikipedia", "DuckDuckGo"}
                 /\ HasResults(tool_output)
            THEN CiteRecords(a, Tail(log), lowered,
                             CiteHits(a, tool_name, tool_output.results,
                                      lowered, st))
            ELSE IF tool_name = "OpenMeteo"
            THEN CiteRecords(a, Tail(log), lowered, CiteWeather(a, lowered, st))
            ELSE CiteRecords(a, Tail(log), lowered, st)

\* the citations of a turn; response_text.lower() is the same at every use
Extract(a, log, text) == CiteRecords(a, log, Lower(text), NoCitations)

\* citation loops that take the records off the log as they read them
EmitCitationsDraining ==
    /\ pc = "cite"
    /\ LET st == Extract(agent, results, response_text) IN
       /\ events' = events \o st.parts
       /\ anchors' = anchors \o st.words
       /\ IF st.raised
          THEN Raise("TypeError")
          ELSE /\ pc' = IF HasCap(agent) THEN "completed" ELSE "end"
               /\ UNCHANGED <<error, escaped>>
    /\ results' = <<>>
    /\ UNCHANGED <<agent, parts, part_index, code, written, started, running, returned, last_call, order,
                   steps, response_text>>

\* the citation loops: they run to their end, or raise after yielding
\* some citations
EmitCitations ==
    /\ pc = "cite"
    /\ LET st == Extract(agent, results, response_text) IN
       /\ events' = events \o st.parts
       /\ anchors' = anchors \o st.words
       /\ IF st.raised
          THEN Raise("TypeError")
          ELSE /\ pc' = IF HasCap(agent) THEN "completed" ELSE "end"
               /\ UNCHANGED <<error, escaped>>
    /\ UNCHANGED <<agent, parts, part_index, code, written, started, running, returned, last_call, results, order,
                   steps, response_text>>

(***************************************************************************)
(* except Exception as e                                                   *)
(***************************************************************************)
YieldError ==
    /\ pc = "except"
    /\ events' = Append(events, Trajectory("error", 0, <<>>, None))
    /\ pc' = "errmsg"
    /\ UNCHANGED <<agent, parts, part_index, code, written, started, running, returned, last_call, results,
                   order, steps, response_text, anchors, error, escaped>>

YieldErrorText ==
    /\ pc = "errmsg"
    /\ events' = Append(events, Content("error", <<>>))
    /\ pc' = "end"
    /\ UNCHANGED <<agent, parts, part_index, code, written, started, running, returned, last_call, results,
                   order, steps, response_text, anchors, error, escaped>>

Next ==
    \/ YieldStart
    \/ YieldInitialized
    \/ \E kind \in ToolKinds : StartCall(kind)
    \/ \E c \in running :
          \E out \in {Unstructured, EmptyResults, MixedResults, BrokenResults,
                      ManyResults} : CallReturns(c, out)
    \/ \E c \in running : CallRaises(c)
    \/ \E message \in Lines : Write(message)
    \/ RunRaises
    \/ \E answer \in Answers : RunReturns(answer)
    \/ EmitSteps
    \/ YieldAnswer
    \/ YieldCompleted
    \/ EmitCitations
    \/ YieldError
    \/ YieldErrorText

\* a turn as the agents run it: the runtime awaits each tool call in turn
Spec == Init /\ [][Next]_vars

\* a turn under a host runtime that runs tool calls concurrently
NextConcurrent ==
    \/ Next
    \/ \E kind \in ToolKinds : StartConcurrentCall(kind)

SpecConcurrent == Init /\ [][NextConcurrent]_vars

\* a turn in which the runtime calls no tool but ThinkTool, with any of
\* ClassifierLines written to the sink
NextTrajectory ==
    \/ YieldStart
    \/ YieldInitialized
    \/ StartCall("Think")
    \/ \E c \in running : CallReturns(c, Unstructured)
    \/ \E c \in running : CallRaises(c)
    \/ \E message \in ClassifierLines : Write(message)
    \/ RunRaises
    \/ \E answer \in Answers : RunReturns(answer)
    \/ EmitSteps
    \/ YieldAnswer
    \/ YieldCompleted
    \/ EmitCitations
    \/ YieldError
    \/ YieldErrorText

SpecTrajectory == Init /\ [][NextTrajectory]_vars

\* the logs that the calls of a turn to the wrapped tools can leave
RecordedLogs ==
    UNION {[1..n -> {<<kind, out>> \in
                        {"Wikipedia", "OpenMeteo", "DuckDuckGo"}
                            \X {Unstructured, EmptyResults, MixedResults,
                                BrokenResults, ManyResults} :
                        out \in ToolOutputs(kind)}] : n \in 0..MaxCalls}

\* the citation loops alone: a turn of an agent with citations taken at
\* the point where agent.run has returned, after calls to wrapped tools
\* only, and the answer has been yielded
InitExtractor ==
    /\ agent \in {a \in Agents : HasCitations(a)}
    /\ pc = "cite"
    /\ results \in RecordedLogs
    /\ response_text \in Answers
    /\ started = Len(results)
    /\ running = {}
    /\ returned = [kind \in ToolKinds |->
                      Cardinality({k \in 1..Len(results) :
                                      results[k][1] = kind})]
    /\ last_call = IF results = <<>> THEN NoCall
                   ELSE [ticket |-> Len(results),
                         kind |-> results[Len(results)][1],
                         status |-> "returned",
                         inner |-> results[Len(results)][2],
                         value |-> results[Len(results)][2]]
    /\ order = [k \in 1..Len(results) |-> k]
    /\ parts = <<>>
    /\ part_index = 0
    /\ code = <<>>
    /\ written = <<>>
    /\ steps = <<>>
    /\ events = IF HasTrajectory(agent)
                THEN <<Trajectory("start", 0, <<>>, None),
                       Trajectory("initialized", 0, <<>>, None),
                       Content("answer", response_text)>>
                ELSE <<Content("answer", response_text)>>
    /\ anchors = <<>>
    /\ error = NoError
    /\ escaped = FALSE

NextExtractor ==
    \/ EmitCitations
    \/ YieldCompleted
    \/ YieldError
    \/ YieldErrorText

SpecExtractor == InitExtractor /\ [][NextExtractor]_vars


(***************************************************************************)
(* python_doc_generator: the loop over the parts of the last message.      *)
(***************************************************************************)
\* part.content_url of a part that carries no file
NoUrl == <<>>

TextPart == [content_url |-> NoUrl]
FilePartA == [content_url |-> <<"u/file", 1>>]
FilePartB == [content_url |-> <<"u/file", 2>>]

Parts == {TextPart, FilePartA, FilePartB}

\* what client.get(...).content.decode('utf-8') can give
FileContents == {CodeFunction, CodePrint, CodeNotes}

\* any(indicator in code for indicator in ['def ', 'class ', 'import ',
\* 'print('])
LooksLikePython(text) ==
    \E indicator \in {IndicatorDef, IndicatorClass, IndicatorImport,
                       IndicatorPrint} : Contains(text, indicator)

InitDocGenerator ==
    /\ agent = "python_doc_generator"
    /\ pc = "for"
    /\ parts \in UNION {[1..n -> Parts] : n \in 0..MaxParts}
    /\ part_index = 1
    /\ code = <<>>
    /\ started = 0
    /\ running = {}
    /\ returned = [kind \in ToolKinds |-> 0]
    /\ last_call = NoCall
    /\ results = <<>>
    /\ order = <<>>
    /\ written = <<>>
    /\ steps = <<>>
    /\ response_text = <<>>
    /\ events = <<>>
    /\ anchors = <<>>
    /\ error = NoError
    /\ escaped = FALSE

\* for part in input[-1].parts: a part whose content_url is None
SkipPart ==
    /\ pc = "for"
    /\ part_index <= Len(parts)
    /\ parts[part_index].content_url = NoUrl
    /\ part_index' = part_index + 1
    /\ UNCHANGED <<agent, pc, code, parts, started, running, returned,
                   last_call, results, order, written, steps, response_text,
                   events, anchors, error, escaped>>

\* if part.content_url: yield "Processing uploaded file..."
YieldProcessing ==
    /\ pc = "for"
    /\ part_index <= Len(parts)
    /\ parts[part_index].content_url # NoUrl
    /\ events' = Append(events, Content("processing", <<>>))
    /\ pc' = "download"
    /\ UNCHANGED <<agent, code, parts, part_index, started, running, returned,
                   last_call, results, order, written, steps, response_text,
                   anchors, error, escaped>>

\* response = await client.get(...); code = response.content.decode('utf-8')
Download(content) ==
    /\ pc = "download"
    /\ code' = content
    /\ pc' = "validate"
    /\ UNCHANGED <<agent, parts, part_index, started, running, returned,
                   last_call, results, order, written, steps, response_text,
                   events, anchors, error, escaped>>

\* the download or the decoding raises
DownloadRaises ==
    /\ pc = "download"
    /\ error' = "DownloadError"
    /\ pc' = "except_doc"
    /\ UNCHANGED <<agent, code, parts, part_index, started, running, returned,
                   last_call, results, order, written, steps, response_text,
                   events, anchors, escaped>>

\* if not any(...): yield "This doesn't appear to be a Python file."; return
YieldNotPython ==
    /\ pc = "validate"
    /\ ~LooksLikePython(code)
    /\ events' = Append(events, Content("not_python", <<>>))
    /\ pc' = "end"
    /\ UNCHANGED <<agent, code, parts, part_index, started, running, returned,
                   last_call, results, order, written, steps, response_text,
                   anchors, error, escaped>>

\* yield "Creating documentation with RequirementAgent..."
YieldCreating ==
    /\ pc = "validate"
    /\ LooksLikePython(code)
    /\ events' = Append(events, Content("creating", <<>>))
    /\ pc' = "generate"
    /\ UNCHANGED <<agent, code, parts, part_index, started, running, returned,
                   last_call, results, order, written, steps, response_text,
                   anchors, error, escaped>>

\* response = await agent.run(prompt)
RunDocAgent(answer) ==
    /\ pc = "generate"
    /\ response_text' = answer
    /\ pc' = "document"
    /\ UNCHANGED <<agent, code, parts, part_index, started, running, returned,
                   last_call, results, order, written, steps, events, anchors,
                   error, escaped>>

RunDocAgentRaises ==
    /\ pc = "generate"
    /\ error' = "AgentError"
    /\ pc' = "except_doc"
    /\ UNCHANGED <<agent, code, parts, part_index, started, running, returned,
                   last_call, results, order, written, steps, response_text,
                   events, anchors, escaped>>

\* yield "# Python Code Documentation ... {response.answer.text}"; the try
\* statement ends and the loop goes on to the next part
YieldDocumentation ==
    /\ pc = "document"
    /\ events' = Append(events, Content("documentation", response_text))
    /\ part_index' = part_index + 1
    /\ pc' = "for"
    /\ UNCHANGED <<agent, code, parts, started, running, returned, last_call,
                   results, order, written, steps, response_text, anchors,
                   error, escaped>>

\* except Exception as e: yield "Error: ..."; return
YieldDocError ==
    /\ pc = "except_doc"
    /\ events' = Append(events, Content("doc_error", <<>>))
    /\ pc' = "end"
    /\ UNCHANGED <<agent, code, parts, part_index, started, running, returned,
                   last_call, results, order, written, steps, response_text,
                   anchors, error, escaped>>

\* after the loop: yield "Please upload a Python file to generate
\* documentation!"
YieldUploadPrompt ==
    /\ pc = "for"
    /\ part_index > Len(parts)
    /\ events' = Append(events, Content("upload_prompt", <<>>))
    /\ pc' = "end"
    /\ UNCHANGED <<agent, code, parts, part_index, started, running, returned,
                   last_call, results, order, written, steps, response_text,
                   anchors, error, escaped>>

NextDocGenerator ==
    \/ SkipPart
    \/ YieldProcessing
    \/ \E content \in FileContents : Download(content)
    \/ DownloadRaises
    \/ YieldNotPython
    \/ YieldCreating
    \/ \E answer \in Answers : RunDocAgent(answer)
    \/ RunDocAgentRaises
    \/ YieldDocumentation
    \/ YieldDocError
    \/ YieldUploadPrompt

SpecDocGenerator == InitDocGenerator /\ [][NextDocGenerator]_vars

(***************************************************************************)
(* Views of the yielded stream.                                            *)
(***************************************************************************)
IsCitation(e) == e.part = "citation"
IsStep(e) == e.part = "trajectory" /\ e.role = "step"
IsMarker(e) == e.part = "trajectory" /\ e.role \in {"completed", "error"}
IsAnswer(e) == e.part = "content" /\ e.role = "answer"

CitationEvents == SelectSeq(events, IsCitation)
StepEvents == SelectSeq(events, IsStep)

Positions(P(_)) == {k \in 1..Len(events) : P(events[k])}

Finished == pc = "end"

(***************************************************************************)
(* C1: in every agent that emits citations, the number of citations        *)
(* yielded in one turn never exceeds 10.                                   *)
(***************************************************************************)
C1_CitationsNeverExceedCap == Len(CitationEvents) <= CitationCap

(***************************************************************************)
(* C2: every citation yielded has 0 <= start_index < end_index <=          *)
(* len(answer), and answer[start_index:end_index] equals the anchor word   *)
(* when both are compared case-insensitively.                              *)
(***************************************************************************)
C2_SpansLieOnAnchor ==
    \A k \in 1..Len(CitationEvents) :
        LET e == CitationEvents[k] IN
        /\ 0 <= e.start_index
        /\ e.start_index < e.end_index
        /\ e.end_index <= Len(response_text)
        /\ Lower(Slice(response_text, e.start_index, e.end_index))
              = Lower(anchors[k])

(***************************************************************************)
(* C3: the k-th step yielded carries index k: indices start at 1 and       *)
(* blank lines do not consume an index.                                    *)
(***************************************************************************)
C3_StepIndexCountsSteps ==
    \A k \in 1..Len(StepEvents) : StepEvents[k].index = k

(***************************************************************************)
(* C4: with an OpenMeteo record in the log and an answer containing        *)
(* "expect sunny and warm weather tomorrow", exactly one citation is       *)
(* yielded for the record; the claim anchors it at "sunny", the code at    *)
(* "weather", the first vocabulary word that the answer contains.          *)
(***************************************************************************)
IsWeatherCitation(e) == e.part = "citation" /\ e.url = OpenMeteoUrl

WeatherCitations == SelectSeq(events, IsWeatherCitation)

OpenMeteoRecords == {k \in 1..Len(results) : results[k][1] = "OpenMeteo"}

ForecastTurn ==
    /\ Finished
    /\ error = NoError
    /\ HasCitations(agent)
    /\ Contains(response_text, ForecastPhrase)
    /\ Cardinality(OpenMeteoRecords) = 1
    /\ HasCap(agent) => Len(CitationEvents) < CitationCap

C5_LogInCallStartOrder ==
    \A j \in 1..Len(order) : \A k \in 1..Len(order) :
        j < k => order[j] < order[k]

(***************************************************************************)
(* C6: when the wrapped call of a tracked tool raises, the log is left     *)
(* unchanged and the exception reaches the caller; when it returns,        *)
(* exactly the entry (kind, result) is appended and the result is handed   *)
(* on unchanged.                                                           *)
(***************************************************************************)
C6_RecorderPassesThrough ==
    [][\A c \in running :
          (c \notin running' /\ Tracked(agent, c.kind)) =>
              /\ last_call'.ticket = c.ticket
              /\ last_call'.status \in {"raised", "returned"}
              /\ last_call'.status = "raised" =>
                    /\ results' = results
                    /\ error' = "ToolError"
                    /\ pc' \in {"except", "end"}
              /\ last_call'.status = "returned" =>
                    /\ results' = Append(results, <<c.kind, last_call'.inner>>)
                    /\ last_call'.value = last_call'.inner
                    /\ error' = NoError
                    /\ pc' = "run"]_vars

C6_Witness ==
    /\ last_call.status = "raised"
    /\ Tracked(agent, last_call.kind)
    /\ error = "ToolError"
    /\ Len(results) = 1
    /\ last_call.ticket = 2

(***************************************************************************)
(* C7: every tool call that returns appends one record to the log; the     *)
(* claim counts the calls of every tool, the code records the calls of     *)
(* the wrapped tools (Wikipedia, OpenMeteo, DuckDuckGo) only.              *)
(***************************************************************************)
\* C7 as claimed: the log is as long as the number of calls that returned
C7_EveryCallRecorded ==
    HasCitations(agent) =>
        Len(results) = returned["Think"] + returned["Wikipedia"]
                         + returned["OpenMeteo"] + returned["DuckDuckGo"]

\* C7 as amended: the log is as long as the number of calls of wrapped
\* tools that returned
C7_WrappedCallsRecorded ==
    IF HasCitations(agent)
    THEN Len(results) = returned["Wikipedia"] + returned["OpenMeteo"]
                          + returned["DuckDuckGo"]
    ELSE results = <<>>

C7_Witness ==
    /\ HasCitations(agent)
    /\ returned["Think"] = 1
    /\ returned["OpenMeteo"] = 1
    /\ Len(results) = 1

(***************************************************************************)
(* C8: in every agent the stream is trajectory events, then the answer,    *)
(* then citations, then exactly one completion or error marker as the      *)
(* last metadata event; no step follows the answer and no citation         *)
(* precedes it.                                                            *)
(***************************************************************************)
C8_StreamOrder ==
    /\ \A a \in Positions(IsAnswer) :
          /\ \A k \in Positions(IsStep) : k < a
          /\ \A k \in Positions(IsCitation) : a < k
    /\ Finished =>
          /\ Cardinality(Positions(IsMarker)) = 1
          /\ \A m \in Positions(IsMarker) :
                /\ \A k \in (m + 1)..Len(events) : events[k].part = "content"
                /\ \A a \in Positions(IsAnswer) : a < m

(***************************************************************************)
(* C9: in every agent an exception raised during the turn never leaves     *)
(* the agent function; it is surfaced as exactly one trajectory error      *)
(* event followed by exactly one error message, and nothing follows.       *)
(***************************************************************************)
IsErrorEvent(e) == e.part = "trajectory" /\ e.role = "error"
IsErrorText(e) == e.part = "content" /\ e.role = "error"

C9_ExceptionsSurfaceOnce ==
    /\ ~escaped
    /\ (Finished /\ error # NoError) =>
          /\ Len(events) >= 2
          /\ Positions(IsErrorEvent) = {Len(events) - 1}
          /\ Positions(IsErrorText) = {Len(events)}

(***************************************************************************)
(* C10: the citation loops raise no error, whatever the log holds; a hit   *)
(* without a description yields no citation and the loops go on.           *)
(***************************************************************************)
C10_ExtractorNeverRaises == error # "TypeError"

(***************************************************************************)
(* C11: the description of every citation yielded for a search hit is the  *)
(* hit's description unchanged when it has at most 100 characters, and its *)
(* first 100 characters followed by "..." when it has more.                *)
(***************************************************************************)
\* the hits of the result sets in the log
LoggedHits ==
    UNION {{results[k][2].results[j] : j \in 1..Len(results[k][2].results)} :
              k \in {r \in 1..Len(results) : "results" \in DOMAIN results[r][2]}}

IsHitCitation(e) == e.part = "citation" /\ e.url # OpenMeteoUrl

HitCitations == SelectSeq(events, IsHitCitation)

C11_DescriptionTruncatedAtLimit ==
    \A k \in 1..Len(HitCitations) :
        LET e == HitCitations[k] IN
        \E h \in LoggedHits :
            /\ h.url = e.url
            /\ e.description =
                  IF Len(h.description) <= 100
                  THEN h.description
                  ELSE [c \in 1..103 |->
                           IF c <= 100 THEN h.description[c] ELSE "."]

C11_Witness ==
    /\ \E k \in 1..Len(HitCitations) :
          /\ HitCitations[k].url = HitBoston.url
          /\ Len(HitBoston.description) = 150
          /\ Len(HitCitations[k].description) = 103
    /\ \E k \in 1..Len(HitCitations) :
          /\ HitCitations[k].url = HitBostonCommon.url
          /\ HitCitations[k].description = HitBostonCommon.description
          /\ Len(HitCitations[k].description) = 100

(***************************************************************************)
(* C12: the description of every citation yielded is bounded in length;    *)
(* the claim bounds it by 100 characters, the code by 100 characters plus  *)
(* the three of the marker "...".                                          *)
(***************************************************************************)
\* C12 as claimed: at most 100 characters
C12_DescriptionWithinLimit ==
    \A k \in 1..Len(CitationEvents) :
        Len(CitationEvents[k].description) <= 100

\* C12 as amended: at most 103 characters
C12_DescriptionWithinLimitPlusMarker ==
    \A k \in 1..Len(CitationEvents) :
        Len(CitationEvents[k].description) <= 103

C12_Witness ==
    \E k \in 1..Len(CitationEvents) :
        /\ Len(CitationEvents[k].description) = 103
        /\ SubSeq(CitationEvents[k].description, 101, 103) = <<".", ".", ".">>

(***************************************************************************)
(* C13: two search hits in the log whose titles share the word that both   *)
(* select as anchor both yield a citation, and the two citations have the  *)
(* same start_index and end_index.                                         *)
(***************************************************************************)
\* the citation loops have run, to their end or to an exception
Extracted ==
    /\ HasCitations(agent)
    /\ Positions(IsAnswer) # {}
    /\ pc \in {"completed", "except", "errmsg", "end"}

\* fewer than 10 citations were yielded, or the agent has no cap
CapOpen == HasCap(agent) => Len(CitationEvents) < CitationCap

\* the places <<record, hit>> of the search hits in the log
HitPlaces ==
    {<<r, j>> \in (1..Len(results)) \X (1..(CitationCap + 1)) :
        /\ results[r][1] \in {"Wikipedia", "DuckDuckGo"}
        /\ "results" \in DOMAIN results[r][2]
        /\ j <= Len(results[r][2].results)}

HitAt(p) == results[p[1]][2].results[p[2]]

\* the first word of the title, in title order, that is longer than the
\* threshold of the record's kind and occurs in the answer when both are
\* compared case-insensitively; <<>> if there is none
SelectedAnchor(p) ==
    LET words == Split(HitAt(p).title)
        threshold == IF results[p[1]][1] = "Wikipedia" THEN 3 ELSE 4
        qualifying == {k \in 1..Len(words) :
                          /\ Len(words[k]) > threshold
                          /\ Contains(Lower(response_text), Lower(words[k]))}
    IN IF qualifying = {} THEN <<>>
       ELSE words[CHOOSE k \in qualifying : \A m \in qualifying : k <= m]

CitationsOf(url) == {k \in 1..Len(CitationEvents) : CitationEvents[k].url = url}

PlacesOf(url) == {p \in HitPlaces : HitAt(p).url = url}

\* every place of the hit in the log yielded a citation
YieldedCitation(p) ==
    Cardinality(CitationsOf(HitAt(p).url)) = Cardinality(PlacesOf(HitAt(p).url))

C13_SharedAnchorSharedOffsets ==
    (Extracted /\ CapOpen) =>
        \A p \in HitPlaces : \A q \in HitPlaces :
            (/\ p # q
             /\ HitAt(p).description # NoDescription
             /\ HitAt(q).description # NoDescription
             /\ SelectedAnchor(p) # <<>>
             /\ SelectedAnchor(p) = SelectedAnchor(q)) =>
                /\ YieldedCitation(p)
                /\ YieldedCitation(q)
                /\ \A a \in CitationsOf(HitAt(p).url) :
                      \A b \in CitationsOf(HitAt(q).url) :
                          /\ CitationEvents[a].start_index
                                = CitationEvents[b].start_index
                          /\ CitationEvents[a].end_index
                                = CitationEvents[b].end_index

(***************************************************************************)
(* C14: with an empty log the citation loops yield no citation; the claim  *)
(* adds that every step yielded then has tool_name None, the code tags a   *)
(* step by the markers in its text, whatever the log holds.                *)
(***************************************************************************)
EmptyLogTurn ==
    /\ HasTrajectory(agent)
    /\ Extracted
    /\ results = <<>>

Markers == {ThinkMarker, WikipediaMarker, OpenMeteoMarker, DuckDuckGoMarker}

\* C14 as claimed: no citation, and no step carries a tool name
C14_EmptyLogNoCitationNoTag ==
    EmptyLogTurn =>
        /\ CitationEvents = <<>>
        /\ \A k \in 1..Len(StepEvents) : StepEvents[k].tool_name = None

\* C14 as amended: no citation, and a step whose text holds no marker
\* carries no tool name
C14_EmptyLogNoCitation ==
    EmptyLogTurn =>
        /\ CitationEvents = <<>>
        /\ \A k \in 1..Len(StepEvents) :
              (\A marker \in Markers : ~Contains(StepEvents[k].text, marker))
                  => StepEvents[k].tool_name = None

C14_Witness ==
    /\ EmptyLogTurn
    /\ Finished
    /\ returned["Think"] = 1
    /\ CitationEvents = <<>>
    /\ \E k \in 1..Len(StepEvents) : StepEvents[k].tool_name = "Think"
    /\ \E k \in 1..Len(StepEvents) :
          /\ StepEvents[k].text = LinePlain
          /\ StepEvents[k].tool_name = None

(***************************************************************************)
(* C15: the text of every step yielded is the message the runtime wrote    *)
(* to the sink; the claim says with its leading and trailing whitespace,   *)
(* the code without it, since write() stores message.strip().              *)
(***************************************************************************)
\* C15 as claimed: the text is the message as written
C15_StepTextUntrimmed ==
    \A k \in 1..Len(StepEvents) :
        StepEvents[k].text = written[StepEvents[k].index]

\* text is message without the whitespace at its two ends
IsTrimmed(text, message) ==
    /\ text # <<>>
    /\ text[1] \notin Whitespace
    /\ text[Len(text)] \notin Whitespace
    /\ \E lo \in 1..Len(message) :
          /\ lo + Len(text) - 1 <= Len(message)
          /\ SubSeq(message, lo, lo + Len(text) - 1) = text
          /\ \A c \in 1..(lo - 1) : message[c] \in Whitespace
          /\ \A c \in (lo + Len(text))..Len(message) :
                message[c] \in Whitespace

\* C15 as amended: the text is the message with the whitespace at its two
\* ends removed
C15_StepTextTrimmed ==
    \A k \in 1..Len(StepEvents) :
        IsTrimmed(StepEvents[k].text, written[StepEvents[k].index])

C15_Witness ==
    \E k \in 1..Len(StepEvents) :
        /\ written[StepEvents[k].index] = LineThinkWiki
        /\ Len(StepEvents[k].text) = Len(LineThinkWiki) - 2
        /\ StepEvents[k].text # LineThinkWiki

(***************************************************************************)
(* C16: the citation loops read the log only when the tool calls of the    *)
(* turn are over: once the answer or a citation has been yielded no record *)
(* is appended, and at no point of the turn is a record of the log changed *)
(* or removed.                                                             *)
(***************************************************************************)
C16_LogCompleteBeforeExtraction ==
    [][/\ Len(results) <= Len(results')
       /\ SubSeq(results', 1, Len(results)) = results
       /\ (Positions(IsAnswer) # {} \/ CitationEvents # <<>>)
             => results' = results
       /\ Len(CitationEvents') > Len(CitationEvents)
             => /\ running = {}
                /\ Positions(IsAnswer) # {}
                /\ results' = results]_vars

C16_Witness ==
    /\ Finished
    /\ error = NoError
    /\ Len(results) = 2
    /\ Len(CitationEvents) >= 2

(***************************************************************************)
(* C17: every non-blank line written to the sink is yielded as a step      *)
(* tagged with the first marker it contains, in the order ThinkTool,       *)
(* WikipediaTool, OpenMeteoTool, DuckDuckGoSearchTool, or with None when   *)
(* it contains none; classification never ends the turn.  The claim gives  *)
(* every agent the four markers; trajectory_agent tests the first three.   *)
(***************************************************************************)
\* the loop over trajectory.steps is over and nothing was raised
StepsEmitted ==
    /\ HasTrajectory(agent)
    /\ error = NoError
    /\ pc \in {"answer", "cite", "completed", "end"}

NonBlankLines ==
    {i \in 1..Len(written) :
        \E c \in 1..Len(written[i]) : written[i][c] \notin Whitespace}

PriorityOrder ==
    <<<<ThinkMarker, "Think">>, <<WikipediaMarker, "Wikipedia">>,
      <<OpenMeteoMarker, "Weather">>, <<DuckDuckGoMarker, "DuckDuckGo">>>>

\* the tag of the first of the first n markers of PriorityOrder that the
\* line contains; None if it contains none of them
FirstTag(line, n) ==
    LET found == {k \in 1..n : Contains(line, PriorityOrder[k][1])} IN
    IF found = {} THEN None
    ELSE PriorityOrder[CHOOSE k \in found : \A m \in found : k <= m][2]

\* C17 as claimed: the four markers in every agent
C17_FirstOfFourMarkers ==
    StepsEmitted =>
        /\ Len(StepEvents) = Cardinality(NonBlankLines)
        /\ \A i \in NonBlankLines :
              \E k \in 1..Len(StepEvents) :
                  /\ StepEvents[k].index = i
                  /\ StepEvents[k].tool_name = FirstTag(written[i], 4)

\* C17 as amended: the four markers in chat_agent and travel_guide, the
\* first three in trajectory_agent
C17_FirstOfAgentMarkers ==
    StepsEmitted =>
        /\ Len(StepEvents) = Cardinality(NonBlankLines)
        /\ \A i \in NonBlankLines :
              \E k \in 1..Len(StepEvents) :
                  /\ StepEvents[k].index = i
                  /\ StepEvents[k].tool_name =
                        FirstTag(written[i],
                                 IF agent = "trajectory_agent" THEN 3 ELSE 4)

C17_Witness ==
    /\ StepsEmitted
    /\ Finished
    /\ written = <<LineWikiThink, LinePlain>>
    /\ Len(StepEvents) = 2
    /\ StepEvents[1].tool_name = "Think"
    /\ StepEvents[2].tool_name = None

(***************************************************************************)
(* C18: the citation of a search hit is anchored at the first word of the  *)
(* title, in title order, that is longer than the threshold of the         *)
(* record's kind (3 for Wikipedia, 4 for DuckDuckGo) and occurs in the     *)
(* answer case-insensitively; start_index is the first case-insensitive    *)
(* occurrence of that word in the answer and end_index is start_index plus *)
(* its length; a hit without such a word yields no citation.               *)
(***************************************************************************)
\* the least offset at which word occurs in text when both are compared
\* case-insensitively; -1 if there is none
FirstOccurrence(text, word) ==
    LET at == {o \in 0..(Len(text) - Len(word)) :
                  Lower(Slice(text, o, o + Len(word))) = Lower(word)}
    IN IF at = {} THEN -1 ELSE CHOOSE o \in at : \A m \in at : o <= m

C18_AnchoredAtFirstQualifyingWord ==
    Extracted =>
        /\ \A k \in 1..Len(HitCitations) :
              LET e == HitCitations[k] IN
              \E p \in PlacesOf(e.url) :
                  LET word == SelectedAnchor(p) IN
                  /\ word # <<>>
                  /\ e.start_index = FirstOccurrence(response_text, word)
                  /\ e.end_index = e.start_index + Len(word)
        /\ \A p \in HitPlaces :
              Cardinality(CitationsOf(HitAt(p).url))
                 <= Cardinality({q \in PlacesOf(HitAt(p).url) :
                                    SelectedAnchor(q) # <<>>})

(***************************************************************************)
(* C19: every search hit and every OpenMeteo record of the log yields at   *)
(* most one citation, so there are at most as many citations as hits and   *)
(* OpenMeteo records; the citations come in record order and, within a     *)
(* record, in hit order.                                                   *)
(***************************************************************************)
\* the sources a citation can come from, in log order: the url of each hit
\* of each Wikipedia or DuckDuckGo record, and the Open-Meteo url for each
\* OpenMeteo record
RECURSIVE LogSources(_)
LogSources(log) ==
    IF log = <<>> THEN <<>>
    ELSE LET kind == Head(log)[1]
             output == Head(log)[2]
         IN (IF kind \in {"Wikipedia", "DuckDuckGo"}
                   /\ "results" \in DOMAIN output
             THEN [j \in 1..Len(output.results) |-> output.results[j].url]
             ELSE IF kind = "OpenMeteo" THEN <<OpenMeteoUrl>> ELSE <<>>)
            \o LogSources(Tail(log))

\* a is b with some of its elements left out
RECURSIVE IsSubsequence(_, _)
IsSubsequence(a, b) ==
    IF a = <<>> THEN TRUE
    ELSE IF b = <<>> THEN FALSE
    ELSE IF Head(a) = Head(b) THEN IsSubsequence(Tail(a), Tail(b))
    ELSE IsSubsequence(a, Tail(b))

CitationSources == [k \in 1..Len(CitationEvents) |-> CitationEvents[k].url]

C19_OneCitationPerSourceInLogOrder ==
    CitationEvents # <<>> =>
        /\ Len(CitationEvents) <= Len(LogSources(results))
        /\ IsSubsequence(CitationSources, LogSources(results))

C19_Witness ==
    /\ Finished
    /\ error = NoError
    /\ Len(results) = 2
    /\ results[1][1] = "OpenMeteo"
    /\ Len(CitationEvents) = 3
    /\ Len(LogSources(results)) = 4
    /\ CitationSources = <<OpenMeteoUrl, HitPark.url, HitBostonCommon.url>>

(***************************************************************************)
(* C20: for an OpenMeteo record the vocabulary is scanned in its listed    *)
(* order and one citation is yielded for the first vocabulary word that    *)
(* occurs in the answer case-insensitively, with the fixed Open-Meteo url, *)
(* title and description, start_index at the first occurrence of that word *)
(* and end_index = start_index + len(word); when no vocabulary word occurs *)
(* in the answer the record yields no citation.                            *)
(***************************************************************************)
\* the places in the vocabulary of the words that occur in the answer
VocabularyFound ==
    {k \in 1..Len(weather_words(agent)) :
        Contains(Lower(response_text), weather_words(agent)[k])}

C20_WeatherCitedAtFirstVocabularyWord ==
    (Extracted /\ CapOpen) =>
        IF VocabularyFound = {}
        THEN WeatherCitations = <<>>
        ELSE LET first == CHOOSE k \in VocabularyFound :
                              \A m \in VocabularyFound : k <= m
                 word == weather_words(agent)[first]
             IN /\ Len(WeatherCitations) = Cardinality(OpenMeteoRecords)
                /\ \A k \in 1..Len(WeatherCitations) :
                      LET e == WeatherCitations[k] IN
                      /\ e.url = OpenMeteoUrl
                      /\ e.title = OpenMeteoTitle
                      /\ e.description = OpenMeteoDescription(agent)
                      /\ e.start_index = FirstOccurrence(response_text, word)
                      /\ e.end_index = e.start_index + Len(word)

(***************************************************************************)
(* C21: the cap only cuts the sequence of citations short: what chat_agent *)
(* and travel_guide yield is the first min(10, n) of the n citations that  *)
(* the same loops yield without the tests of citation_count, and a hit or  *)
(* record that yields no citation takes none of the 10 places.             *)
(***************************************************************************)
\* the hits and OpenMeteo records of the log, in log order
RECURSIVE LogItems(_)
LogItems(log) ==
    IF log = <<>> THEN <<>>
    ELSE LET kind == Head(log)[1]
             output == Head(log)[2]
         IN (IF kind \in {"Wikipedia", "DuckDuckGo"}
                   /\ "results" \in DOMAIN output
             THEN [j \in 1..Len(output.results) |->
                      [kind |-> kind, hit |-> output.results[j]]]
             ELSE IF kind = "OpenMeteo"
             THEN <<[kind |-> kind, hit |-> Unstructured]>>
             ELSE <<>>)
            \o LogItems(Tail(log))

\* the word a search hit is anchored at: the first word of its title that
\* is longer than the threshold of its kind and occurs in the lower-cased
\* answer; <<>> if there is none
ItemAnchor(item, lowered) ==
    LET words == Split(item.hit.title)
        threshold == IF item.kind = "Wikipedia" THEN 3 ELSE 4
        found == {k \in 1..Len(words) :
                     /\ Len(words[k]) > threshold
                     /\ Contains(lowered, Lower(words[k]))}
    IN IF found = {} THEN <<>>
       ELSE words[CHOOSE k \in found : \A m \in found : k <= m]

\* the matching rules raise on the item: an anchored hit without description
ItemRaises(item, lowered) ==
    /\ item.kind # "OpenMeteo"
    /\ ItemAnchor(item, lowered) # <<>>
    /\ item.hit.description = NoDescription

\* what the matching rules yield for an item they do not raise on: <<>> or
\* one citation
ItemCitation(a, item, lowered) ==
    IF item.kind = "OpenMeteo"
    THEN LET vocabulary == weather_words(a)
             found == {k \in 1..Len(vocabulary) :
                          Contains(lowered, vocabulary[k])}
         IN IF found = {} THEN <<>>
            ELSE LET word == vocabulary[CHOOSE k \in found :
                                           \A m \in found : k <= m]
                 IN <<Citation(OpenMeteoUrl, OpenMeteoTitle,
                               OpenMeteoDescription(a), Find(lowered, word),
                               Find(lowered, word) + Len(word))>>
    ELSE LET word == ItemAnchor(item, lowered)
             text == item.hit.description
         IN IF word = <<>> THEN <<>>
            ELSE <<Citation(item.hit.url, item.hit.title,
                            IF Len(text) <= 100 THEN text
                            ELSE SubSeq(text, 1, 100) \o <<".", ".", ".">>,
                            Find(lowered, Lower(word)),
                            Find(lowered, Lower(word)) + Len(word))>>

\* the citations the matching rules yield for the items from the k-th on,
\* with no cap, up to the item they raise on
RECURSIVE UncappedFrom(_, _, _, _)
UncappedFrom(a, items, k, lowered) ==
    IF k > Len(items) THEN <<>>
    ELSE IF ItemRaises(items[k], lowered) THEN <<>>
    ELSE ItemCitation(a, items[k], lowered)
            \o UncappedFrom(a, items, k + 1, lowered)

UncappedCitations ==
    UncappedFrom(agent, LogItems(results), 1, Lower(response_text))

C21_CapOnlyTruncates ==
    (Extracted /\ HasCap(agent)) =>
        LET all == UncappedCitations IN
        CitationEvents = SubSeq(all, 1, Min(CitationCap, Len(all)))

C21_Witness ==
    /\ Extracted
    /\ HasCap(agent)
    /\ Len(results) = 2
    /\ results[1][2] = MixedResults
    /\ Len(LogItems(results)) = 14
    /\ Len(UncappedCitations) = 13
    /\ Len(CitationEvents) = 10
    /\ CitationEvents = SubSeq(UncappedCitations, 1, 10)

(***************************************************************************)
(* C22: python_doc_generator yields "Please upload a Python file to        *)
(* generate documentation!" only when no part of the last message carries  *)
(* a content_url, and never after it has yielded the documentation of an   *)
(* uploaded file.                                                          *)
(***************************************************************************)
IsUploadPrompt(e) == e.part = "content" /\ e.role = "upload_prompt"
IsDocumentation(e) == e.part = "content" /\ e.role = "documentation"

C22_UploadPromptOnlyWithoutFile ==
    Positions(IsUploadPrompt) # {} =>
        /\ \A k \in 1..Len(parts) : parts[k].content_url = NoUrl
        /\ Positions(IsDocumentation) = {}

=============================================================================
